---------------------------- MODULE Spec2Model ----------------------------
(***************************************************************************)
(* A model of sound.c: the sample-count computation (get_num_samples),     *)
(* the frequency set and mixer (main, create_samples), the WAVE container  *)
(* codec (create_sound_file, append_sound_file and the byte I/O helpers    *)
(* below them) and the run of the program from process_flags to the end    *)
(* of the process (the output stream and its exit handler).                *)
(*                                                                         *)
(* Machine integers.  TLC's integers are 32-bit signed, so a uint32_t of   *)
(* 32 bits cannot be computed with.  The model keeps the C types'          *)
(* structure and scales the byte: a byte has CHAR_BIT bits (3 here, 8 on   *)
(* the real machine), uint8_t/int8_t have 1 byte, int16_t 2 bytes and      *)
(* uint32_t 4 bytes, so every wrap-around of the code happens in the model *)
(* at the same place relative to the type's range.  Values of type size_t  *)
(* or long are never reduced: the code only holds values below 2^32 in     *)
(* them, except the sign-extended sample handled in write_int_data.        *)
(* The literals of the source (1000, 36, 44, 16, 8, ...) are kept as they  *)
(* are.  Characters are folded into the non-NUL byte values by Char.       *)
(***************************************************************************)
EXTENDS Integers, Sequences, FiniteSets, TLC

-----------------------------------------------------------------------------
(* Bounds of the model *)

\* Bits in a byte (limits.h: 8).
CHAR_BIT == 3
\* Longest sample sequence enumerated element by element.
MaxLen == 1
\* Program runs on the same file.
MaxRuns == 2

-----------------------------------------------------------------------------
(* Integer types *)

UCHAR_MAX == 2^CHAR_BIT - 1
INT8_MAX == 2^(CHAR_BIT - 1) - 1
INT16_MAX == 2^(2 * CHAR_BIT - 1) - 1
INT16_MIN == -INT16_MAX - 1
UINT32_MAX == 2^(4 * CHAR_BIT) - 1

\* Conversion to uint8_t / uint32_t: reduction modulo 2^width.
uint8_t(x) == x % (UCHAR_MAX + 1)
uint32_t(x) == x % (UINT32_MAX + 1)

Min(a, b) == IF a < b THEN a ELSE b
Max(a, b) == IF a > b THEN a ELSE b

\* Truncating division of C (toward zero), for a positive divisor.
CDiv(a, b) == IF a >= 0 THEN a \div b ELSE -((-a) \div b)

-----------------------------------------------------------------------------
(* Program state *)

VARIABLES
    sample_rate,        \* static uint32_t sample_rate
    pc,                 \* control point of the running program
    duration,           \* static uint32_t duration: the argument of the call
    num_samples,        \* the value get_num_samples returned
    prev_duration,      \* the previous call's argument (0: no previous call)
    prev_num_samples,   \* the previous call's result
    prev_returned,      \* whether the previous call returned (did not exit)
    num_overtones,      \* static int8_t num_overtones
    volume,             \* static long double volume (a whole percentage here)
    pitches,            \* argv[argindex ..]: the fundamentals, parsed
    frequencies,        \* main's long double frequencies[num_frequencies]
    mix_count,          \* create_samples' uint8_t num_frequencies
    samples,            \* the int16_t array create_samples returns
    file,               \* the bytes of the output file, offset 0 first
    pos,                \* the position of the stream out
    fault,              \* the stream operations that fail during this run
    append_mode,        \* static uint8_t append_mode
    data,               \* the samples handed to create/append_sound_file
    prev_subchunk2_size,\* append_sound_file's local
    vstep,              \* which header verification is next (1 .. 12)
    outcome,            \* how the run ended
    file0,              \* the file's bytes when the run opened it
    nverified,          \* header verifications passed in this run
    nwrites,            \* bytes written to the file in this run
    io_failed,          \* a stream operation of this run has failed
    io_after_failure,   \* a stream operation followed a failed one
    origin,             \* how the file came to be: creation rate and samples
    altered,            \* the header field altered since ("none": none)
    runs,               \* runs of the program so far
    out,                \* static FILE *out: 0 for stdout, else a stream
    streams,            \* the fclose calls on each stream fopen returned
    handlers,           \* the functions registered with atexit, in order
    nopts,              \* options getopt_long has returned so far
    pitches_left        \* frequency arguments main has still to parse

numVars == <<duration, num_samples, prev_duration, prev_num_samples,
             prev_returned>>
mixVars == <<num_overtones, volume, pitches, frequencies, mix_count, samples>>
codecVars == <<file, pos, fault, append_mode, data, prev_subchunk2_size,
               vstep, outcome, file0, nverified, nwrites, io_failed,
               io_after_failure, origin, altered, runs>>
lifeVars == <<out, streams, handlers, nopts, pitches_left>>
vars == <<sample_rate, pc, numVars, mixVars, codecVars, lifeVars>>

-----------------------------------------------------------------------------
(* The parts of the state a specification does not run *)

NumIdle ==
    /\ duration = 0
    /\ num_samples = 0
    /\ prev_duration = 0
    /\ prev_num_samples = 0
    /\ prev_returned = FALSE

NoOrigin == [kind |-> "none", rate |-> 0, samples |-> <<>>]

CodecIdle ==
    /\ file = <<>>
    /\ pos = 0
    /\ fault = "none"
    /\ append_mode = 0
    /\ data = <<>>
    /\ prev_subchunk2_size = 0
    /\ vstep = 0
    /\ outcome = "none"
    /\ file0 = <<>>
    /\ nverified = 0
    /\ nwrites = 0
    /\ io_failed = FALSE
    /\ io_after_failure = FALSE
    /\ origin = NoOrigin
    /\ altered = "none"
    /\ runs = 0

LifeIdle ==
    /\ out = 0
    /\ streams = <<>>
    /\ handlers = <<>>
    /\ nopts = 0
    /\ pitches_left = 0

MixIdle ==
    /\ num_overtones = 0
    /\ volume = 0
    /\ pitches = <<>>
    /\ frequencies = <<>>
    /\ mix_count = 0
    /\ samples = <<>>

-----------------------------------------------------------------------------
(* get_num_samples *)

\* The result of a call that may end the program instead of returning.
Returned(v) == [returned |-> TRUE, value |-> v]
Exited == [returned |-> FALSE, value |-> 0]

get_num_samples(d) ==
    LET low == IF d > sample_rate THEN sample_rate ELSE d
        high == IF d > sample_rate THEN d ELSE sample_rate
    IN  IF low \div 1000 > UINT32_MAX \div high
        THEN Exited
        ELSE IF low > UINT32_MAX \div high
             THEN Returned(uint32_t(((high \div 1000) + 1) * low))
             ELSE Returned(uint32_t((uint32_t(high * low) \div 1000) + 1))

\* Values of -d and -s the model runs: parse_int_opt admits [1, UINT32_MAX].
Durations ==
    (1 .. 12) \cup {100, 999, 1000, 1001, 1999, 2000, 2001,
                    UINT32_MAX \div 2, UINT32_MAX \div 2 + 1,
                    UINT32_MAX - 1, UINT32_MAX}
SampleRates ==
    {1, 2, 8, 80, 1000, 1001, UINT32_MAX \div 2 + 1, UINT32_MAX}

InitNum ==
    /\ sample_rate \in SampleRates
    /\ duration \in Durations
    /\ pc = "call"
    /\ num_samples = 0
    /\ prev_duration = 0
    /\ prev_num_samples = 0
    /\ prev_returned = FALSE
    /\ MixIdle
    /\ CodecIdle
    /\ LifeIdle

\* main: uint32_t num_samples = get_num_samples(duration);
CallGetNumSamples ==
    /\ pc = "call"
    /\ LET r == get_num_samples(duration)
       IN  /\ num_samples' = r.value
           /\ pc' = IF r.returned THEN "returned" ELSE "too_large"
    /\ UNCHANGED <<sample_rate, duration, prev_duration, prev_num_samples,
                   prev_returned, mixVars, codecVars, lifeVars>>

\* The program is run again with another -d and the same -s.
RunAgain ==
    /\ pc \in {"returned", "too_large"}
    /\ prev_duration = 0
    /\ prev_duration' = duration
    /\ prev_num_samples' = num_samples
    /\ prev_returned' = (pc = "returned")
    /\ duration' \in Durations
    /\ num_samples' = 0
    /\ pc' = "call"
    /\ UNCHANGED <<sample_rate, mixVars, codecVars, lifeVars>>

NextNum == CallGetNumSamples \/ RunAgain

SpecNum == InitNum /\ [][NextNum]_vars

-----------------------------------------------------------------------------
(* main's frequency set and create_samples *)

\* Longest list of fundamentals on the command line.
MaxPitches == 2
\* Most samples mixed in one run.
MaxMixSamples == 2

RECURSIVE SumSeq(_)
SumSeq(q) == IF q = <<>> THEN 0 ELSE Head(q) + SumSeq(Tail(q))

\* square_wave_function: x = (2 * time * frequency) / sample_rate;
\* ((size_t)x % 2) ? 1 : -1.  The fundamentals of the model are whole
\* numbers, so x's integer part is an integer quotient.
square_wave_function(frequency, time) ==
    IF ((2 * time * frequency) \div sample_rate) % 2 = 1 THEN 1 ELSE -1

\* main, lines 145-154: the array of (num_overtones + 1) * num_pitches
\* frequencies, frequencies[p * (num_overtones + 1) + o] = (o + 1) *
\* fundamental.
main_frequencies(ps, overtones) ==
    [i \in 1 .. (overtones + 1) * Len(ps) |->
        LET p == (i - 1) \div (overtones + 1)
            o == (i - 1) % (overtones + 1)
        IN  (o + 1) * ps[p + 1]]

\* create_samples' loop body for sample t: the sum over f < num_frequencies
\* of ((volume / 100) * INT16_MAX * wave_function(frequencies[f], t)) /
\* num_frequencies, then the cast to int16_t.  The long double arithmetic
\* is taken as exact: every term has the denominator 100 * num_frequencies,
\* so the sum is one quotient, which the cast truncates toward zero.
mix_sample(fs, nf, vol, t) ==
    IF nf = 0
    THEN 0
    ELSE CDiv(vol * INT16_MAX *
                  SumSeq([f \in 1 .. nf |-> square_wave_function(fs[f], t)]),
              100 * nf)

create_samples(fs, nf, vol, n) ==
    [t \in 1 .. n |-> mix_sample(fs, nf, vol, t - 1)]

\* The int -> uint8_t conversion of main's num_frequencies at the call of
\* create_samples (line 155, against the prototype of line 400).
create_samples_count(n) == uint8_t(n)

Fundamentals == {1, 3}
PitchLists == UNION {[1 .. n -> Fundamentals] : n \in 1 .. MaxPitches}

InitMix ==
    /\ sample_rate \in {8}
    /\ num_overtones \in 0 .. INT8_MAX
    /\ volume \in {50, 100}
    /\ pitches \in PitchLists
    /\ num_samples \in 1 .. MaxMixSamples
    /\ frequencies = <<>>
    /\ mix_count = 0
    /\ samples = <<>>
    /\ pc = "main"
    /\ duration = 0
    /\ prev_duration = 0
    /\ prev_num_samples = 0
    /\ prev_returned = FALSE
    /\ CodecIdle
    /\ LifeIdle

BuildFrequencies ==
    /\ pc = "main"
    /\ frequencies' = main_frequencies(pitches, num_overtones)
    /\ pc' = "create_samples"
    /\ UNCHANGED <<sample_rate, numVars, num_overtones, volume, pitches,
                   mix_count, samples, codecVars, lifeVars>>

CreateSamples ==
    /\ pc = "create_samples"
    /\ mix_count' = create_samples_count(Len(frequencies))
    /\ samples' = create_samples(frequencies, mix_count', volume, num_samples)
    /\ pc' = "mixed"
    /\ UNCHANGED <<sample_rate, numVars, num_overtones, volume, pitches,
                   frequencies, codecVars, lifeVars>>

NextMix == BuildFrequencies \/ CreateSamples

SpecMix == InitMix /\ [][NextMix]_vars

-----------------------------------------------------------------------------
(* The WAVE header: the #defines of lines 27-65 *)

\* The byte a character is stored as.  The codes of the real character set
\* do not fit a scaled byte, so they are folded into 1 .. UCHAR_MAX: no
\* character of a header tag is NUL, as in ASCII.
Char(c) == (c % UCHAR_MAX) + 1
Str(codes) == [i \in 1 .. Len(codes) |-> Char(codes[i])]

CHUNK_ID == Str(<<82, 73, 70, 70>>)          \* "RIFF"
FORMAT == Str(<<87, 65, 86, 69>>)            \* "WAVE"
SUBCHUNK1_ID == Str(<<102, 109, 116, 32>>)   \* "fmt "
SUBCHUNK1_SIZE == 16
AUDIO_FORMAT == 1
NUM_CHANNELS == 1
BITS_PER_SAMPLE == 16
\* uint32_t arithmetic, left to right: the product wraps before the division.
BYTE_RATE ==
    uint32_t(uint32_t(sample_rate * NUM_CHANNELS) * BITS_PER_SAMPLE) \div 8
BLOCK_ALIGN == (NUM_CHANNELS * BITS_PER_SAMPLE) \div 8
SUBCHUNK2_ID == Str(<<100, 97, 116, 97>>)    \* "data"

CHUNK_ID_SIZE == 4
CHUNK_SIZE_SIZE == 4
FORMAT_SIZE == 4
SUBCHUNK1_ID_SIZE == 4
SUBCHUNK1_SIZE_SIZE == 4
AUDIO_FORMAT_SIZE == 2
NUM_CHANNELS_SIZE == 2
SAMPLE_RATE_SIZE == 4
BYTE_RATE_SIZE == 4
BLOCK_ALIGN_SIZE == 2
BITS_PER_SAMPLE_SIZE == 2
SUBCHUNK2_ID_SIZE == 4
SUBCHUNK2_SIZE_SIZE == 4

CHUNK_ID_OFFSET == 0
CHUNK_SIZE_OFFSET == 4
FORMAT_OFFSET == 8
SUBCHUNK1_ID_OFFSET == 12
SUBCHUNK1_SIZE_OFFSET == 16
AUDIO_FORMAT_OFFSET == 20
NUM_CHANNELS_OFFSET == 22
SAMPLE_RATE_OFFSET == 24
BYTE_RATE_OFFSET == 28
BLOCK_ALIGN_OFFSET == 32
BITS_PER_SAMPLE_OFFSET == 34
SUBCHUNK2_ID_OFFSET == 36
SUBCHUNK2_SIZE_OFFSET == 40
DATA_OFFSET == 44

-----------------------------------------------------------------------------
(* Byte I/O on the stream out *)

\* The outcome of each stream operation of a step, in order: TRUE for a
\* failed one.
NoOps == <<>>
AnyFailed(ops) == \E i \in 1 .. Len(ops) : ops[i]
\* Some operation of ops was performed after a failed one (of this step or,
\* with before, of an earlier step of the run).
AfterFailure(before, ops) ==
    \/ before /\ Len(ops) > 0
    \/ \E i \in 1 .. Len(ops) - 1 : ops[i]

\* The file f with the bytes bs stored from offset p on; a write past the
\* end leaves a gap of zero bytes.
StoreAt(f, p, bs) ==
    LET old == Len(f)
        end == p + Len(bs)
    IN  IF p <= old
        THEN SubSeq(f, 1, p) \o bs \o SubSeq(f, end + 1, old)
        ELSE f \o [i \in 1 .. p - old |-> 0] \o bs

\* checked_fseek(out, offset, SEEK_SET): a failed fseek is reported and the
\* function returns; the position stays where it was.
checked_fseek(p, offset) ==
    IF fault = "seek"
    THEN [pos |-> p, ops |-> <<TRUE>>]
    ELSE [pos |-> offset, ops |-> <<FALSE>>]

\* checked_fgetc: at the end of the file (or on a read error) fgetc returns
\* EOF, which is reported; the function returns (uint8_t)EOF.
checked_fgetc(f, p) ==
    IF fault # "read" /\ p < Len(f)
    THEN [byte |-> f[p + 1], pos |-> p + 1, failed |-> FALSE]
    ELSE [byte |-> uint8_t(-1), pos |-> p, failed |-> TRUE]

\* read_int_data: num_bytes calls of checked_fgetc, byte i shifted left by
\* CHAR_BIT * i and added.
RECURSIVE read_int_loop(_, _, _, _)
read_int_loop(f, i, num_bytes, acc) ==
    IF i = num_bytes
    THEN acc
    ELSE LET g == checked_fgetc(f, acc.pos)
         IN  read_int_loop(f, i + 1, num_bytes,
                 [result |-> acc.result + g.byte * 2^(CHAR_BIT * i),
                  pos |-> g.pos,
                  ops |-> Append(acc.ops, g.failed)])

read_int_data(f, p, num_bytes) ==
    read_int_loop(f, 0, num_bytes, [result |-> 0, pos |-> p, ops |-> NoOps])

\* write_int_data: the bytes it hands to checked_fputc, least significant
\* first: data & UCHAR_MAX, then data >>= CHAR_BIT.  data is a size_t: a
\* negative sample arrives sign-extended, and the floor division and the
\* non-negative modulus below give the bytes of its two's complement.
write_int_data(d, num_bytes) ==
    [i \in 1 .. num_bytes |-> (d \div 2^(CHAR_BIT * (i - 1))) % (UCHAR_MAX + 1)]

\* The bytes bs written through checked_fputc / checked_fprintf at offset p:
\* a failed write is reported and ends the program.  The writes of one step
\* that all succeed are one entry of ops.
write_out(f, p, bs) ==
    IF fault = "write" /\ Len(bs) > 0
    THEN [file |-> f, pos |-> p, failed |-> TRUE, written |-> 0,
          ops |-> <<TRUE>>]
    ELSE [file |-> StoreAt(f, p, bs), pos |-> p + Len(bs), failed |-> FALSE,
          written |-> Len(bs),
          ops |-> IF Len(bs) > 0 THEN <<FALSE>> ELSE NoOps]

\* fread(buf, 1, size, out): the bytes read, fewer than size at the end of
\* the file, none on a read error.
fread(f, p, size) ==
    LET n == IF fault = "read" THEN 0 ELSE Max(0, Min(size, Len(f) - p))
    IN  [buf |-> [i \in 1 .. n |-> f[p + i]], pos |-> p + n]

\* strncmp(a, b, n) != 0: a byte differs before both strings end.
strncmp(a, b, n) ==
    \E i \in 1 .. n :
        /\ a[i] # b[i]
        /\ \A j \in 1 .. i - 1 : a[j] = b[j] /\ a[j] # 0

-----------------------------------------------------------------------------
(* create_sound_file *)

\* data_length * NUM_CHANNELS * BITS_PER_SAMPLE / 8 in uint32_t arithmetic
\* (lines 472, 498 and 535).
data_size(data_length) ==
    uint32_t(uint32_t(data_length * NUM_CHANNELS) * BITS_PER_SAMPLE) \div 8

\* The 44 bytes of lines 473-485, for the values written into the four
\* fields that are not constants.
Header(rate, byte_rate, chunk_size, subchunk2_size) ==
    CHUNK_ID
        \o write_int_data(chunk_size, CHUNK_SIZE_SIZE)
        \o FORMAT
        \o SUBCHUNK1_ID
        \o write_int_data(SUBCHUNK1_SIZE, SUBCHUNK1_SIZE_SIZE)
        \o write_int_data(AUDIO_FORMAT, AUDIO_FORMAT_SIZE)
        \o write_int_data(NUM_CHANNELS, NUM_CHANNELS_SIZE)
        \o write_int_data(rate, SAMPLE_RATE_SIZE)
        \o write_int_data(byte_rate, BYTE_RATE_SIZE)
        \o write_int_data(BLOCK_ALIGN, BLOCK_ALIGN_SIZE)
        \o write_int_data(BITS_PER_SAMPLE, BITS_PER_SAMPLE_SIZE)
        \o SUBCHUNK2_ID
        \o write_int_data(subchunk2_size, SUBCHUNK2_SIZE_SIZE)

create_header(data_length) ==
    Header(sample_rate, BYTE_RATE, uint32_t(36 + data_size(data_length)),
           data_size(data_length))

\* The loops of lines 486-488 and 540-542: write_int_data(data[i], 2) for
\* every sample in order.
sample_bytes(d) ==
    [j \in 1 .. 2 * Len(d) |->
        write_int_data(d[(j + 1) \div 2], 2)[((j - 1) % 2) + 1]]

\* What a run of create_sound_file without a failed write leaves in the file.
create_sound_file(d) == create_header(Len(d)) \o sample_bytes(d)

-----------------------------------------------------------------------------
(* append_sound_file *)

NumVerifications == 12

\* The calls of lines 507-527, in order.
Verification(k) ==
    CASE k = 1 -> [name |-> "Chunk ID", string |-> TRUE, field |-> CHUNK_ID,
                   offset |-> CHUNK_ID_OFFSET, size |-> CHUNK_ID_SIZE]
      [] k = 2 -> [name |-> "Format", string |-> TRUE, field |-> FORMAT,
                   offset |-> FORMAT_OFFSET, size |-> FORMAT_SIZE]
      [] k = 3 -> [name |-> "Subchunk 1 ID", string |-> TRUE,
                   field |-> SUBCHUNK1_ID,
                   offset |-> SUBCHUNK1_ID_OFFSET, size |-> SUBCHUNK1_ID_SIZE]
      [] k = 4 -> [name |-> "Subchunk 1 size", string |-> FALSE,
                   field |-> SUBCHUNK1_SIZE,
                   offset |-> SUBCHUNK1_SIZE_OFFSET,
                   size |-> SUBCHUNK1_SIZE_SIZE]
      [] k = 5 -> [name |-> "Audio format", string |-> FALSE,
                   field |-> AUDIO_FORMAT,
                   offset |-> AUDIO_FORMAT_OFFSET, size |-> AUDIO_FORMAT_SIZE]
      [] k = 6 -> [name |-> "Number of channels", string |-> FALSE,
                   field |-> NUM_CHANNELS,
                   offset |-> NUM_CHANNELS_OFFSET, size |-> NUM_CHANNELS_SIZE]
      [] k = 7 -> [name |-> "Sample rate", string |-> FALSE,
                   field |-> sample_rate,
                   offset |-> SAMPLE_RATE_OFFSET, size |-> SAMPLE_RATE_SIZE]
      [] k = 8 -> [name |-> "Byte rate", string |-> FALSE,
                   field |-> BYTE_RATE,
                   offset |-> BYTE_RATE_OFFSET, size |-> BYTE_RATE_SIZE]
      [] k = 9 -> [name |-> "Block align", string |-> FALSE,
                   field |-> BLOCK_ALIGN,
                   offset |-> BLOCK_ALIGN_OFFSET, size |-> BLOCK_ALIGN_SIZE]
      [] k = 10 -> [name |-> "Bits per sample", string |-> FALSE,
                    field |-> BITS_PER_SAMPLE,
                    offset |-> BITS_PER_SAMPLE_OFFSET,
                    size |-> BITS_PER_SAMPLE_SIZE]
      [] k = 11 -> [name |-> "Subchunk 2 ID", string |-> TRUE,
                    field |-> SUBCHUNK2_ID,
                    offset |-> SUBCHUNK2_ID_OFFSET,
                    size |-> SUBCHUNK2_ID_SIZE]
      [] k = 12 -> [name |-> "Subchunk 2 size", string |-> FALSE,
                    field |-> prev_subchunk2_size,
                    offset |-> SUBCHUNK2_SIZE_OFFSET,
                    size |-> SUBCHUNK2_SIZE_SIZE]

\* verify_int_header with the comparison made on the low byte only.
verify_int_header_low_byte(f, p, field, offset, size) ==
    LET s == checked_fseek(p, offset)
        r == read_int_data(f, s.pos, size)
    IN  [corrupt |-> uint8_t(field) # uint8_t(r.result), pos |-> r.pos,
         ops |-> s.ops \o r.ops]

\* verify_int_header: seek, read, compare; TRUE in corrupt when the field
\* differs (the function then ends the program).
verify_int_header(f, p, field, offset, size) ==
    LET s == checked_fseek(p, offset)
        r == read_int_data(f, s.pos, size)
    IN  [corrupt |-> field # r.result, pos |-> r.pos, ops |-> s.ops \o r.ops]

\* verify_string_header: seek, fread, strncmp.  fread's count is compared
\* with 0 only; after a short read the rest of buf holds whatever the stack
\* held (garbage, any bytes).
verify_string_header(f, p, field, offset, size, garbage) ==
    LET s == checked_fseek(p, offset)
        r == fread(f, s.pos, size)
        buf == r.buf \o garbage
    IN  [read_failed |-> Len(r.buf) = 0,
         corrupt |-> IF Len(r.buf) = 0 THEN FALSE
                     ELSE strncmp(buf, field, size),
         pos |-> r.pos,
         ops |-> s.ops \o <<Len(r.buf) = 0>>]

\* The bytes fread leaves unset in buf.  strncmp tells only whether they
\* are the rest of the expected field or not, so two fillings stand for all:
\* the rest of the field, and zero bytes (no tag holds one).  They are of no
\* account when fread read nothing, since the function then ends the program.
Garbage(f, p, field, offset, size) ==
    LET s == checked_fseek(p, offset)
        r == fread(f, s.pos, size)
    IN  IF Len(r.buf) = 0
        THEN {<<>>}
        ELSE {SubSeq(field, Len(r.buf) + 1, size),
              [i \in 1 .. size - Len(r.buf) |-> 0]}

\* append_sound_file with the size fields rewritten before the last
\* verification, that of Subchunk 2 size.
after_verification_early(k) ==
    IF k < NumVerifications - 1
    THEN [pc |-> "verify", vstep |-> k + 1]
    ELSE [pc |-> "write_chunk_size", vstep |-> 0]

\* Where append_sound_file goes on after verification k has passed.
after_verification(k) ==
    IF k < NumVerifications
    THEN [pc |-> "verify", vstep |-> k + 1]
    ELSE [pc |-> "write_chunk_size", vstep |-> 0]

-----------------------------------------------------------------------------
(* Runs of the program on one output file *)

\* Sample rates of the runs: a small one, and the least whose byte rate
\* computation wraps.
CodecRates == {1, (UINT32_MAX + 1) \div 16}

\* Sample sequences of the runs: one of every length up to MaxLen, with a
\* negative and a positive sample, and a long one, two of which together
\* make the byte count computation wrap.
LongLen == (UINT32_MAX + 1) \div 32
ShortData(n) == [i \in 1 .. n |-> IF i % 2 = 1 THEN -2 ELSE INT16_MAX]
LongData == [i \in 1 .. LongLen |-> 1]
SampleSeqs == {ShortData(n) : n \in 0 .. MaxLen} \cup {LongData}

\* Stream operations that fail throughout a run: none, every fseek, every
\* fgetc and fread, every fputc and vfprintf.
Faults == {"none", "seek", "read", "write"}

\* A file some other program left behind: a well-formed header whose data
\* chunk fills the range of the 32-bit size fields, and that much data.
HugeDataSize == UINT32_MAX + 1 - DATA_OFFSET
HugeFile ==
    Header(1, 2, 36 + HugeDataSize, HugeDataSize)
        \o [i \in 1 .. HugeDataSize |-> 0]

\* A file whose Chunk Size is below 36 and whose Subchunk2 Size is that
\* Chunk Size less 36 in uint32_t arithmetic, with no data.
LowChunkFile == Header(1, 2, 0, uint32_t(0 - 36))

\* A file cut off after the Subchunk2 ID, 40 bytes, with Chunk Size 35.
TruncatedFile == SubSeq(Header(1, 2, 35, 0), 1, SUBCHUNK2_SIZE_OFFSET)

\* The files the first run may find under the name given to -a.
InitFiles == {<<>>, HugeFile, LowChunkFile, TruncatedFile}

\* The thirteen fields of the header: name, offset, size.
HeaderFields ==
    { <<"Chunk ID", CHUNK_ID_OFFSET, CHUNK_ID_SIZE>>,
      <<"Chunk Size", CHUNK_SIZE_OFFSET, CHUNK_SIZE_SIZE>>,
      <<"Format", FORMAT_OFFSET, FORMAT_SIZE>>,
      <<"Subchunk1 ID", SUBCHUNK1_ID_OFFSET, SUBCHUNK1_ID_SIZE>>,
      <<"Subchunk1 Size", SUBCHUNK1_SIZE_OFFSET, SUBCHUNK1_SIZE_SIZE>>,
      <<"Audio Format", AUDIO_FORMAT_OFFSET, AUDIO_FORMAT_SIZE>>,
      <<"Num Channels", NUM_CHANNELS_OFFSET, NUM_CHANNELS_SIZE>>,
      <<"Sample Rate", SAMPLE_RATE_OFFSET, SAMPLE_RATE_SIZE>>,
      <<"Byte Rate", BYTE_RATE_OFFSET, BYTE_RATE_SIZE>>,
      <<"Block Align", BLOCK_ALIGN_OFFSET, BLOCK_ALIGN_SIZE>>,
      <<"Bits Per Sample", BITS_PER_SAMPLE_OFFSET, BITS_PER_SAMPLE_SIZE>>,
      <<"Subchunk2 ID", SUBCHUNK2_ID_OFFSET, SUBCHUNK2_ID_SIZE>>,
      <<"Subchunk2 Size", SUBCHUNK2_SIZE_OFFSET, SUBCHUNK2_SIZE_SIZE>> }

InitCodec ==
    /\ file \in InitFiles
    /\ pc = "idle"
    /\ sample_rate = 1
    /\ pos = 0
    /\ fault = "none"
    /\ append_mode = 0
    /\ data = <<>>
    /\ prev_subchunk2_size = 0
    /\ vstep = 0
    /\ outcome = "none"
    /\ file0 = file
    /\ nverified = 0
    /\ nwrites = 0
    /\ io_failed = FALSE
    /\ io_after_failure = FALSE
    /\ origin = NoOrigin
    /\ altered = "none"
    /\ runs = 0
    /\ NumIdle
    /\ MixIdle
    /\ LifeIdle

\* The bookkeeping of the stream operations ops of one step.
Io(ops) ==
    /\ io_after_failure' = (io_after_failure \/ AfterFailure(io_failed, ops))
    /\ io_failed' = (io_failed \/ AnyFailed(ops))

\* What is known of the file's making when a run ends with result, having
\* left the bytes f in it.
OriginAfter(f, result) ==
    IF append_mode = 0
    THEN IF result = "ok"
         THEN [kind |-> "created", rate |-> sample_rate, samples |-> data]
         ELSE [kind |-> "other", rate |-> 0, samples |-> <<>>]
    ELSE IF /\ result = "ok"
            /\ origin.kind = "created"
            /\ origin.rate = sample_rate
            /\ altered = "none"
            /\ fault = "none"
         THEN [origin EXCEPT !.samples = @ \o data]
         ELSE IF f = file0
              THEN origin
              ELSE [kind |-> "other", rate |-> 0, samples |-> <<>>]

\* exit(), or the return from main: the program ends (and close_out runs).
Exit(f, result) ==
    /\ pc' = "exit"
    /\ outcome' = result
    /\ origin' = OriginAfter(f, result)

\* process_flags' -f / -a: the program starts, with its options, and opens
\* the output file: "w" empties it, "r+" leaves it as it is.  A later run with
\* -f leaves what a first run with -f leaves, so only the first run has it.
StartRun ==
    /\ pc \in {"idle", "exit"}
    /\ runs < MaxRuns
    /\ runs' = runs + 1
    /\ append_mode' \in IF runs = 0 THEN {0, 1} ELSE {1}
    /\ sample_rate' \in CodecRates
    /\ data' \in SampleSeqs
    /\ fault' \in Faults
    /\ file' = IF append_mode' = 0 THEN <<>> ELSE file
    /\ file0' = file'
    /\ origin' = IF append_mode' = 0 THEN NoOrigin ELSE origin
    /\ altered' = IF append_mode' = 0 THEN "none" ELSE altered
    /\ pos' = 0
    /\ prev_subchunk2_size' = 0
    /\ vstep' = 0
    /\ outcome' = "running"
    /\ nverified' = 0
    /\ nwrites' = 0
    /\ io_failed' = FALSE
    /\ io_after_failure' = FALSE
    /\ pc' = IF append_mode' = 0 THEN "create_header" ELSE "append_read_prev"
    /\ UNCHANGED <<numVars, mixVars, lifeVars>>

\* create_sound_file, lines 472-485.
CreateHeader ==
    /\ pc = "create_header"
    /\ LET w == write_out(file, pos, create_header(Len(data)))
       IN  /\ file' = w.file
           /\ pos' = w.pos
           /\ nwrites' = nwrites + w.written
           /\ Io(w.ops)
           /\ IF w.failed
              THEN Exit(w.file, "write_failed")
              ELSE pc' = "create_data" /\ UNCHANGED <<outcome, origin>>
    /\ UNCHANGED <<lifeVars, sample_rate, numVars, mixVars, fault,
                   append_mode, data,
                   prev_subchunk2_size, vstep, file0, nverified, altered,
                   runs>>

\* create_sound_file, lines 486-488, and main's return.
CreateData ==
    /\ pc = "create_data"
    /\ LET w == write_out(file, pos, sample_bytes(data))
       IN  /\ file' = w.file
           /\ pos' = w.pos
           /\ nwrites' = nwrites + w.written
           /\ Io(w.ops)
           /\ Exit(w.file, IF w.failed THEN "write_failed" ELSE "ok")
    /\ UNCHANGED <<lifeVars, sample_rate, numVars, mixVars, fault,
                   append_mode, data,
                   prev_subchunk2_size, vstep, file0, nverified, altered,
                   runs>>

\* append_sound_file, lines 502-503.
AppendReadPrev ==
    /\ pc = "append_read_prev"
    /\ LET s == checked_fseek(pos, CHUNK_SIZE_OFFSET)
           r == read_int_data(file, s.pos, CHUNK_SIZE_SIZE)
       IN  /\ prev_subchunk2_size' = uint32_t(r.result - 36)
           /\ pos' = r.pos
           /\ Io(s.ops \o r.ops)
    /\ pc' = "verify"
    /\ vstep' = 1
    /\ UNCHANGED <<lifeVars, sample_rate, numVars, mixVars, file, fault,
                   append_mode,
                   data, outcome, file0, nverified, nwrites, origin, altered,
                   runs>>

\* One verify_string_header call of lines 507-525.
VerifyStringHeader ==
    /\ pc = "verify"
    /\ Verification(vstep).string
    /\ LET v == Verification(vstep)
       IN  \E garbage \in Garbage(file, pos, v.field, v.offset, v.size) :
             LET r == verify_string_header(file, pos, v.field, v.offset,
                                           v.size, garbage)
             IN  /\ pos' = r.pos
                 /\ Io(r.ops)
                 /\ IF r.read_failed
                    THEN /\ Exit(file, "read_failed")
                         /\ UNCHANGED <<vstep, nverified>>
                    ELSE IF r.corrupt
                    THEN /\ Exit(file, "corrupt")
                         /\ UNCHANGED <<vstep, nverified>>
                    ELSE /\ pc' = after_verification(vstep).pc
                         /\ vstep' = after_verification(vstep).vstep
                         /\ nverified' = nverified + 1
                         /\ UNCHANGED <<outcome, origin>>
    /\ UNCHANGED <<lifeVars, sample_rate, numVars, mixVars, file, fault,
                   append_mode,
                   data, prev_subchunk2_size, file0, nwrites, altered, runs>>

\* One verify_int_header call of lines 511-527.
VerifyIntHeader ==
    /\ pc = "verify"
    /\ ~Verification(vstep).string
    /\ LET v == Verification(vstep)
           r == verify_int_header(file, pos, v.field, v.offset, v.size)
       IN  /\ pos' = r.pos
           /\ Io(r.ops)
           /\ IF r.corrupt
              THEN /\ Exit(file, "corrupt")
                   /\ UNCHANGED <<vstep, nverified>>
              ELSE /\ pc' = after_verification(vstep).pc
                   /\ vstep' = after_verification(vstep).vstep
                   /\ nverified' = nverified + 1
                   /\ UNCHANGED <<outcome, origin>>
    /\ UNCHANGED <<lifeVars, sample_rate, numVars, mixVars, file, fault,
                   append_mode,
                   data, prev_subchunk2_size, file0, nwrites, altered, runs>>

\* append_sound_file, lines 531-533.
WriteChunkSize ==
    /\ pc = "write_chunk_size"
    /\ LET s == checked_fseek(pos, CHUNK_SIZE_OFFSET)
           w == write_out(file, s.pos,
                    write_int_data(
                        uint32_t(uint32_t(prev_subchunk2_size
                                          + data_size(Len(data))) + 36),
                        CHUNK_SIZE_SIZE))
       IN  /\ file' = w.file
           /\ pos' = w.pos
           /\ nwrites' = nwrites + w.written
           /\ Io(s.ops \o w.ops)
           /\ IF w.failed
              THEN Exit(w.file, "write_failed")
              ELSE pc' = "write_subchunk2_size" /\ UNCHANGED <<outcome, origin>>
    /\ UNCHANGED <<lifeVars, sample_rate, numVars, mixVars, fault,
                   append_mode, data,
                   prev_subchunk2_size, vstep, file0, nverified, altered,
                   runs>>

\* append_sound_file, lines 534-536.
WriteSubchunk2Size ==
    /\ pc = "write_subchunk2_size"
    /\ LET s == checked_fseek(pos, SUBCHUNK2_SIZE_OFFSET)
           w == write_out(file, s.pos,
                    write_int_data(
                        uint32_t(data_size(Len(data)) + prev_subchunk2_size),
                        SUBCHUNK2_SIZE_SIZE))
       IN  /\ file' = w.file
           /\ pos' = w.pos
           /\ nwrites' = nwrites + w.written
           /\ Io(s.ops \o w.ops)
           /\ IF w.failed
              THEN Exit(w.file, "write_failed")
              ELSE pc' = "append_data" /\ UNCHANGED <<outcome, origin>>
    /\ UNCHANGED <<lifeVars, sample_rate, numVars, mixVars, fault,
                   append_mode, data,
                   prev_subchunk2_size, vstep, file0, nverified, altered,
                   runs>>

\* append_sound_file, lines 539-542, and main's return.
AppendData ==
    /\ pc = "append_data"
    /\ LET s == checked_fseek(pos, uint32_t(DATA_OFFSET + prev_subchunk2_size))
           w == write_out(file, s.pos, sample_bytes(data))
       IN  /\ file' = w.file
           /\ pos' = w.pos
           /\ nwrites' = nwrites + w.written
           /\ Io(s.ops \o w.ops)
           /\ Exit(w.file, IF w.failed THEN "write_failed" ELSE "ok")
    /\ UNCHANGED <<lifeVars, sample_rate, numVars, mixVars, fault,
                   append_mode, data,
                   prev_subchunk2_size, vstep, file0, nverified, altered,
                   runs>>

\* Between two runs something else changes the first or the last byte of one
\* header field of a file the program created.
AlterHeaderField ==
    /\ pc = "exit"
    /\ pc' = "idle"
    /\ runs < MaxRuns
    /\ origin.kind = "created"
    /\ altered = "none"
    /\ \E fld \in HeaderFields : \E j \in {1, fld[3]} :
         \E b \in {0, (file[fld[2] + j] + 1) % (UCHAR_MAX + 1)} :
           /\ b # file[fld[2] + j]
           /\ file' = [file EXCEPT ![fld[2] + j] = b]
           /\ altered' = fld[1]
    /\ UNCHANGED <<lifeVars, sample_rate, numVars, mixVars, pos, fault,
                   append_mode,
                   data, prev_subchunk2_size, vstep, outcome, file0,
                   nverified, nwrites, io_failed, io_after_failure, origin,
                   runs>>

Next ==
    \/ StartRun
    \/ CreateHeader
    \/ CreateData
    \/ AppendReadPrev
    \/ VerifyStringHeader
    \/ VerifyIntHeader
    \/ WriteChunkSize
    \/ WriteSubchunk2Size
    \/ AppendData
    \/ AlterHeaderField

Spec == InitCodec /\ [][Next]_vars

-----------------------------------------------------------------------------
(* Runs in which no stream operation fails: one creation, then appends *)

\* The shortest sequence whose byte count computation wraps by itself.
WrapData == LongData \o LongData

InitSizes ==
    /\ pc = "create_header"
    /\ sample_rate \in CodecRates
    /\ data \in SampleSeqs \cup {WrapData}
    /\ file = <<>>
    /\ file0 = <<>>
    /\ pos = 0
    /\ fault = "none"
    /\ append_mode = 0
    /\ prev_subchunk2_size = 0
    /\ vstep = 0
    /\ outcome = "running"
    /\ nverified = 0
    /\ nwrites = 0
    /\ io_failed = FALSE
    /\ io_after_failure = FALSE
    /\ origin = NoOrigin
    /\ altered = "none"
    /\ runs = 1
    /\ NumIdle
    /\ MixIdle
    /\ LifeIdle

\* process_flags' -a: the program is run again on the file, which "r+"
\* leaves as it is.
StartAppend ==
    /\ pc = "exit"
    /\ runs < MaxRuns
    /\ runs' = runs + 1
    /\ append_mode' = 1
    /\ sample_rate' \in CodecRates
    /\ data' \in SampleSeqs \cup {WrapData}
    /\ file0' = file
    /\ pos' = 0
    /\ prev_subchunk2_size' = 0
    /\ vstep' = 0
    /\ outcome' = "running"
    /\ nverified' = 0
    /\ nwrites' = 0
    /\ io_failed' = FALSE
    /\ io_after_failure' = FALSE
    /\ pc' = "append_read_prev"
    /\ UNCHANGED <<numVars, mixVars, lifeVars, file, fault, origin, altered>>

NextSizes ==
    \/ CreateHeader
    \/ CreateData
    \/ StartAppend
    \/ AppendReadPrev
    \/ VerifyStringHeader
    \/ VerifyIntHeader
    \/ WriteChunkSize
    \/ WriteSubchunk2Size
    \/ AppendData

SpecSizes == InitSizes /\ [][NextSizes]_vars

-----------------------------------------------------------------------------
(* Claims on the container codec (checked under Spec) *)

\* The run that has just ended was append_sound_file / create_sound_file.
AppendEnded == pc = "exit" /\ append_mode = 1
CreateEnded == pc = "exit" /\ append_mode = 0

\* A run of append_sound_file, under way or just ended.
InAppend == append_mode = 1 /\ pc # "idle"

\* C1: when append_sound_file has succeeded on a file made by
\* create_sound_file (and earlier appends) at the same sample rate, the file
\* is byte for byte what create_sound_file writes for all the samples,
\* those of the creation followed by those appended.
C1_AppendEqualsCreate ==
    (AppendEnded /\ outcome = "ok" /\ origin.kind = "created")
        => file = create_sound_file(origin.samples)

\* C2: on a file made by create_sound_file in which one header field was
\* altered since, a run of append_sound_file at the file's sample rate in
\* which no stream operation is made to fail never gets to a write, leaves
\* the file's bytes as they were, and ends with the header-corruption
\* error.
C2_AlteredFieldRejected ==
    (InAppend /\ fault = "none" /\ origin.kind = "created"
              /\ origin.rate = sample_rate /\ altered # "none")
        => /\ file = file0
           /\ nwrites = 0
           /\ pc \in {"append_read_prev", "verify", "exit"}
           /\ pc = "exit" => outcome = "corrupt"

C2_Witness ==
    /\ AppendEnded
    /\ fault = "none"
    /\ origin.kind = "created"
    /\ origin.rate = sample_rate
    /\ altered = "Chunk Size"
    /\ outcome = "corrupt"
    /\ file = file0

\* C3: in a run of append_sound_file, whatever the file holds and whatever
\* fails, the file is written only when all twelve verifications have been
\* made and have passed, none is made after a write, and a run that a
\* verification ends has written nothing.
C3_VerifyBeforeWrite ==
    InAppend
        => /\ (nwrites > 0 \/ file # file0) => nverified = NumVerifications
           /\ nverified <= NumVerifications
           /\ outcome \in {"corrupt", "read_failed"}
                  => nwrites = 0 /\ file = file0

C3_Witness ==
    /\ AppendEnded
    /\ outcome = "ok"
    /\ nverified = NumVerifications
    /\ nwrites = 2 * CHUNK_SIZE_SIZE + 2 * Len(data)
    /\ Len(data) > 0
    /\ file # file0

\* The n bytes of v, least significant first, 2^CHAR_BIT values to a byte.
LittleEndian(v, n) ==
    [i \in 1 .. n |-> (v \div (UCHAR_MAX + 1)^(i - 1)) % (UCHAR_MAX + 1)]

\* The two bytes of the sample v in two's complement, low byte first.
SampleLE(v) == LittleEndian(IF v < 0 THEN v + (INT16_MAX + 1) * 2 ELSE v, 2)

\* Bytes 2k and 2k + 1 after the header are those of sample k.
SamplesLE(d) ==
    [j \in 1 .. 2 * Len(d) |->
        IF j % 2 = 1 THEN SampleLE(d[(j + 1) \div 2])[1]
        ELSE SampleLE(d[j \div 2])[2]]

\* The layout of the interface table for r samples a second and the
\* samples d.
TableLayout(r, d) ==
    CHUNK_ID \o LittleEndian(36 + 2 * Len(d), 4) \o FORMAT \o SUBCHUNK1_ID
        \o LittleEndian(16, 4) \o LittleEndian(1, 2) \o LittleEndian(1, 2)
        \o LittleEndian(r, 4) \o LittleEndian(2 * r, 4)
        \o LittleEndian(2, 2) \o LittleEndian(16, 2)
        \o SUBCHUNK2_ID \o LittleEndian(2 * Len(d), 4)
        \o SamplesLE(d)

\* C4: create_sound_file writes exactly the 44 + 2n bytes of the table,
\* for every sample rate r and every n samples with 36 + 2n in 32 bits.
C4_CreateLayout ==
    (CreateEnded /\ outcome = "ok" /\ 36 + 2 * Len(data) <= UINT32_MAX)
        => file = TableLayout(sample_rate, data)

\* C5: a successful append_sound_file on a file whose header is valid and
\* whose Subchunk2 Size is p leaves bytes 0-3, bytes 8-39 and bytes 44 to
\* 44 + p - 1 as they were.
C5_AppendFrame ==
    (AppendEnded /\ outcome = "ok" /\ fault = "none")
        => /\ Len(file) >= Len(file0)
           /\ \A i \in 1 .. Len(file0) :
                  (\/ i <= CHUNK_SIZE_OFFSET
                   \/ i > FORMAT_OFFSET /\ i <= SUBCHUNK2_SIZE_OFFSET
                   \/ i > DATA_OFFSET /\ i <= DATA_OFFSET + prev_subchunk2_size)
                      => file[i] = file0[i]

\* C8: no stream operation is performed after one has failed.
C8_FailureEndsRun == ~io_after_failure

-----------------------------------------------------------------------------
(* Claim on what append_sound_file accepts (checked under Spec) *)

\* The unsigned value of the size bytes of f from offset on, least
\* significant first.
FieldValue(f, offset, size) ==
    LET v[i \in 0 .. size] ==
            IF i = 0 THEN 0
            ELSE v[i - 1] + f[offset + i] * (UCHAR_MAX + 1)^(i - 1)
    IN  v[size]

\* The file f holds at least 44 bytes, its eleven constant fields are those
\* of the table for r samples a second, its Chunk Size is at least 36 and
\* its Subchunk2 Size is the Chunk Size less 36.
AcceptableHeader(f, r) ==
    /\ Len(f) >= DATA_OFFSET
    /\ SubSeq(f, 1, 4) = CHUNK_ID
    /\ SubSeq(f, 9, 12) = FORMAT
    /\ SubSeq(f, 13, 16) = SUBCHUNK1_ID
    /\ FieldValue(f, 16, 4) = 16
    /\ FieldValue(f, 20, 2) = 1
    /\ FieldValue(f, 22, 2) = 1
    /\ FieldValue(f, 24, 4) = r
    /\ FieldValue(f, 28, 4) = 2 * r
    /\ FieldValue(f, 32, 2) = 2
    /\ FieldValue(f, 34, 2) = 16
    /\ SubSeq(f, 37, 40) = SUBCHUNK2_ID
    /\ FieldValue(f, 4, 4) >= 36
    /\ FieldValue(f, 40, 4) = FieldValue(f, 4, 4) - 36

\* C12: a run of append_sound_file in which no stream operation is made to
\* fail writes to the file only if the file it opened holds an acceptable
\* header for the current sample rate; on any other file it ends with an
\* error and has written nothing.
C12_WritesOnlyOnValidHeader ==
    (InAppend /\ fault = "none" /\ ~AcceptableHeader(file0, sample_rate))
        => /\ nwrites = 0
           /\ file = file0
           /\ pc = "exit" => outcome \in {"corrupt", "read_failed"}

-----------------------------------------------------------------------------
(* Claim on the size fields (checked under SpecSizes) *)

\* C13: after create_sound_file and any number of successful
\* append_sound_file runs at the same sample rate, with n samples written
\* in all: Subchunk2 Size is 2n, Chunk Size is 36 more, and the file holds
\* 44 + 2n bytes, none of these reduced modulo 2^32.
C13_SizeFields ==
    (pc = "exit" /\ outcome = "ok" /\ origin.kind = "created"
                 /\ altered = "none")
        => LET n == Len(origin.samples)
           IN  /\ FieldValue(file, 40, 4) = 2 * n
               /\ FieldValue(file, 4, 4) = 36 + 2 * n
               /\ Len(file) = 44 + 2 * n

-----------------------------------------------------------------------------
(* Claims on get_num_samples (checked under SpecNum) *)

\* ceil(d * r / 1000), computed without a product above d * 999.
TrueCount(d, r) == d * (r \div 1000) + (d * (r % 1000) + 999) \div 1000

\* Whether d * r fits in a uint32_t.
ProductFits(d, r) == d <= UINT32_MAX \div r

\* C6: whenever duration * sample_rate fits in a uint32_t, the value
\* get_num_samples returns is ceil(duration * sample_rate / 1000).
C6_ReturnsCeil ==
    (pc = "returned" /\ ProductFits(duration, sample_rate))
        => num_samples = TrueCount(duration, sample_rate)

\* C7: get_num_samples returns only when the true sample count fits in a
\* uint32_t and the value returned is that of its branch, not reduced
\* modulo 2^width; otherwise the run ends with the too-large error.
BranchValue(d, r) ==
    LET low == Min(d, r)
        high == Max(d, r)
    IN  IF low > UINT32_MAX \div high
        THEN ((high \div 1000) + 1) * low
        ELSE ((high * low) \div 1000) + 1

C7_NoWrappedResult ==
    pc = "returned"
        => /\ TrueCount(duration, sample_rate) <= UINT32_MAX
           /\ BranchValue(duration, sample_rate) <= UINT32_MAX
           /\ num_samples = BranchValue(duration, sample_rate)

\* C10: for a fixed sample rate, two calls that both return are ordered as
\* their durations are.
C10_Monotonic ==
    (pc = "returned" /\ prev_returned /\ prev_duration <= duration)
        => prev_num_samples <= num_samples

-----------------------------------------------------------------------------
(* Claims on the mixer (checked under SpecMix) *)

\* C9: the mixer runs over exactly the p * (k + 1) frequencies f * (o + 1)
\* built in main: create_samples' count is the length of that array, and
\* every sample is the truncated mean contribution of all of them.
C9_MixesAllFrequencies ==
    pc = "mixed"
        => LET n == Len(pitches) * (num_overtones + 1)
           IN  /\ Len(frequencies) = n
               /\ \A p \in 1 .. Len(pitches) : \A o \in 0 .. num_overtones :
                      frequencies[(p - 1) * (num_overtones + 1) + o + 1]
                          = pitches[p] * (o + 1)
               /\ mix_count = n
               /\ Len(samples) = num_samples
               /\ \A t \in 1 .. num_samples :
                      samples[t] =
                          CDiv(volume * INT16_MAX *
                                   SumSeq([f \in 1 .. n |->
                                       square_wave_function(frequencies[f],
                                                            t - 1)]),
                               100 * n)

-----------------------------------------------------------------------------
(* One run of the program, from process_flags to the end of the process *)

\* Options getopt_long returns in one run before it returns -1.
MaxOpts == 3

default_duration == 1000
default_sample_rate == uint32_t(44100)

\* The guard of -a and -f with the test of out left out.
multiple_files_unchecked(o) == FALSE

\* process_flags, -a and -f: if(out != stdout) "Cannot output to multiple
\* files".
multiple_files(o) == o # 0

\* exit(), and the return from main: the process ends, running first the
\* functions registered with atexit.
exit(cause) ==
    /\ pc' = "atexit"
    /\ outcome' = cause

\* Arguments of -d, -s and -o.  parse_int_opt admits [1, UINT32_MAX] for -d
\* and -s and [0, INT8_MAX] for -o, and ends the program on any other.
IntArgs == {0, 1, UINT32_MAX}

InitLife ==
    /\ pc = "process_flags"
    /\ sample_rate = default_sample_rate
    /\ duration = default_duration
    /\ num_samples = 0
    /\ prev_duration = 0
    /\ prev_num_samples = 0
    /\ prev_returned = FALSE
    /\ MixIdle
    /\ CodecIdle
    /\ out = 0
    /\ streams = <<>>
    /\ handlers = <<>>
    /\ nopts = 0
    /\ pitches_left \in 0 .. MaxPitches

\* What the option cases leave alone.
LifeFrame ==
    UNCHANGED <<num_samples, prev_duration, prev_num_samples, prev_returned,
                pitches, frequencies, mix_count, samples, file, pos, fault,
                data, prev_subchunk2_size, vstep, file0, nverified, nwrites,
                io_failed, io_after_failure, origin, altered, runs,
                pitches_left>>

\* process_flags, case 'a' and case 'f' (mode 1 and 0): fopen succeeds or
\* fails.
OptFile ==
    /\ pc = "process_flags"
    /\ nopts < MaxOpts
    /\ nopts' = nopts + 1
    /\ \E mode \in {0, 1} : \E opened \in BOOLEAN :
         IF multiple_files(out)
         THEN /\ exit("multiple_files")
              /\ UNCHANGED <<append_mode, out, streams, handlers>>
         ELSE /\ append_mode' = mode
              /\ IF opened
                 THEN /\ streams' = Append(streams, 0)
                      /\ out' = Len(streams) + 1
                      /\ handlers' = Append(handlers, "close_out")
                      /\ UNCHANGED <<pc, outcome>>
                 ELSE /\ exit("fopen_failed")
                      /\ UNCHANGED <<out, streams, handlers>>
    /\ UNCHANGED <<sample_rate, duration, num_overtones, volume>>
    /\ LifeFrame

\* process_flags, case 'd', 's' and 'o': parse_int_opt returns the value or
\* ends the program through usage(1).
OptInt ==
    /\ pc = "process_flags"
    /\ nopts < MaxOpts
    /\ nopts' = nopts + 1
    /\ \E c \in {"d", "s", "o"} : \E arg \in IntArgs :
         IF (c \in {"d", "s"} /\ arg = 0) \/ (c = "o" /\ arg > INT8_MAX)
         THEN /\ exit("usage")
              /\ UNCHANGED <<duration, sample_rate, num_overtones>>
         ELSE /\ duration' = IF c = "d" THEN arg ELSE duration
              /\ sample_rate' = IF c = "s" THEN arg ELSE sample_rate
              /\ num_overtones' = IF c = "o" THEN arg ELSE num_overtones
              /\ UNCHANGED <<pc, outcome>>
    /\ UNCHANGED <<append_mode, out, streams, handlers, volume>>
    /\ LifeFrame

\* process_flags, case 'v' and case 'w': parse_float_opt and
\* process_wave_opt take the argument or end the program through usage(1).
\* The wave function is no part of the state.
OptOther ==
    /\ pc = "process_flags"
    /\ nopts < MaxOpts
    /\ nopts' = nopts + 1
    /\ \E c \in {"v", "w"} : \E valid \in BOOLEAN :
         IF valid
         THEN /\ volume' = IF c = "v" THEN 100 ELSE volume
              /\ UNCHANGED <<pc, outcome>>
         ELSE /\ exit("usage")
              /\ UNCHANGED volume
    /\ UNCHANGED <<sample_rate, duration, num_overtones, append_mode, out,
                   streams, handlers>>
    /\ LifeFrame

\* process_flags, case '?' and default: usage(1); case 'h': usage(0).
OptUsage ==
    /\ pc = "process_flags"
    /\ nopts < MaxOpts
    /\ nopts' = nopts + 1
    /\ \E c \in {"?", "h"} : exit(IF c = "h" THEN "help" ELSE "usage")
    /\ UNCHANGED <<sample_rate, duration, num_overtones, volume, append_mode,
                   out, streams, handlers>>
    /\ LifeFrame

\* process_flags, case -1: no frequency argument is an error; else main
\* goes on.
OptEnd ==
    /\ pc = "process_flags"
    /\ IF pitches_left = 0
       THEN exit("usage")
       ELSE pc' = "get_num_samples" /\ UNCHANGED outcome
    /\ UNCHANGED <<sample_rate, duration, num_overtones, volume, append_mode,
                   out, streams, handlers, nopts>>
    /\ LifeFrame

\* main, line 144.
MainGetNumSamples ==
    /\ pc = "get_num_samples"
    /\ LET r == get_num_samples(duration)
       IN  IF r.returned
           THEN /\ num_samples' = r.value
                /\ pc' = "parse_frequencies"
                /\ UNCHANGED outcome
           ELSE /\ exit("too_large")
                /\ UNCHANGED num_samples
    /\ UNCHANGED <<sample_rate, duration, prev_duration, prev_num_samples,
                   prev_returned, mixVars, file, pos, fault, append_mode, data,
                   prev_subchunk2_size, vstep, file0, nverified, nwrites,
                   io_failed, io_after_failure, origin, altered, runs,
                   lifeVars>>

\* main, lines 148-154: parse_float_opt on one frequency argument.
MainParseFrequency ==
    /\ pc = "parse_frequencies"
    /\ pitches_left > 0
    /\ pitches_left' = pitches_left - 1
    /\ \E valid \in BOOLEAN :
         IF valid
         THEN /\ pc' = IF pitches_left = 1
                       THEN "write" ELSE "parse_frequencies"
              /\ UNCHANGED outcome
         ELSE exit("usage")
    /\ UNCHANGED <<sample_rate, numVars, mixVars, file, pos, fault,
                   append_mode, data, prev_subchunk2_size, vstep, file0,
                   nverified, nwrites, io_failed, io_after_failure, origin,
                   altered, runs, out, streams, handlers, nopts>>

\* The ways create_sound_file and append_sound_file end, by append_mode:
\* they return, or a write fails, or (append) a verification or its fread
\* ends the program.
WriteResults(mode) ==
    IF mode = 0
    THEN {"ok", "write_failed"}
    ELSE {"ok", "write_failed", "corrupt", "read_failed"}

\* main, lines 155-163: create_samples, then the file is written, and main
\* returns unless the writing ended the program.
MainWrite ==
    /\ pc = "write"
    /\ \E result \in WriteResults(append_mode) : exit(result)
    /\ UNCHANGED <<sample_rate, numVars, mixVars, file, pos, fault,
                   append_mode, data, prev_subchunk2_size, vstep, file0,
                   nverified, nwrites, io_failed, io_after_failure, origin,
                   altered, runs, lifeVars>>

\* The process ends: the last function registered with atexit that has not
\* run yet is called.  close_out is fclose(out).
AtExit ==
    /\ pc = "atexit"
    /\ handlers # <<>>
    /\ handlers' = SubSeq(handlers, 1, Len(handlers) - 1)
    /\ streams' = IF out = 0 THEN streams
                  ELSE [streams EXCEPT ![out] = @ + 1]
    /\ UNCHANGED <<sample_rate, pc, numVars, mixVars, codecVars, out, nopts,
                   pitches_left>>

\* No function is left to call: the process is gone.
Terminate ==
    /\ pc = "atexit"
    /\ handlers = <<>>
    /\ pc' = "terminated"
    /\ UNCHANGED <<sample_rate, numVars, mixVars, codecVars, lifeVars>>

NextLife ==
    \/ OptFile
    \/ OptInt
    \/ OptOther
    \/ OptUsage
    \/ OptEnd
    \/ MainGetNumSamples
    \/ MainParseFrequency
    \/ MainWrite
    \/ AtExit
    \/ Terminate

\* The process keeps running until it has ended.
SpecLife == InitLife /\ [][NextLife]_vars /\ WF_vars(NextLife)

-----------------------------------------------------------------------------
(* Claim on the run of the program (checked under SpecLife) *)

\* Every stream fopen returned has been closed exactly once.
AllClosedOnce == \A i \in 1 .. Len(streams) : streams[i] = 1

\* C11: a run that opened an output file with -f or -a closes it exactly
\* once on every exit path: no stream is ever closed twice, and once a
\* stream is open the process eventually ends with every stream closed
\* once.
C11_ClosedExactlyOnce ==
    /\ [](\A i \in 1 .. Len(streams) : streams[i] <= 1)
    /\ [](pc = "terminated" => AllClosedOnce)
    /\ (Len(streams) > 0) ~> (pc = "terminated" /\ AllClosedOnce)

C11_Witness ==
    /\ pc = "terminated"
    /\ Len(streams) = 1
    /\ streams[1] = 1
    /\ outcome = "corrupt"

====
